---- MODULE Spec2Model ----
(***************************************************************************)
(* The two benchmark drivers of the repository,                            *)
(*   src/NumpyBenchmarkConvolution.py         (constant fill, convolve)    *)
(*   src/python/NumpyBenchmarkConvolution.py  (index-sum fill, correlate)  *)
(* as one state machine: one action per statement of __main__.  The numpy  *)
(* and scipy routines the scripts call are operators that compute what the *)
(* library computes (shapes, sums, boundary extension, raised errors).     *)
(***************************************************************************)
EXTENDS Integers, Sequences, FiniteSets, TLC

VARIABLES script, args, pc, locals, stdout, trace, exitCode, exception, failedAt

vars == <<script, args, pc, locals, stdout, trace, exitCode, exception, failedAt>>

\* Largest --image / --kernel value explored.
MaxSide == 4
\* Largest reading of the monotonic clock explored.
MaxClock == 2

OnesScript == "NumpyBenchmarkConvolution.py"
IndexSumScript == "python/NumpyBenchmarkConvolution.py"
Scripts == {OnesScript, IndexSumScript}

\* default=None of --extrapolation
None == "None"
\* Boundary modes scipy.ndimage recognises.
RecognisedModes == {"reflect", "constant", "nearest", "wrap", "mirror"}
\* Values of --extrapolation explored: absent, recognised, and one unknown name.
Extrapolations == {None} \cup RecognisedModes \cup {"bogus"}
\* Values of --image and --kernel explored (type=int accepts any integer).
Sizes == (0 - 1) .. MaxSide

------------------------------------------------------------------------------
(* numpy arrays: a shape (rows, columns) and the elements by index pair.    *)

Indices(shape) == (0 .. shape[1] - 1) \X (0 .. shape[2] - 1)

Size(a) == a.shape[1] * a.shape[2]

RECURSIVE SumOver(_, _)
SumOver(f, S) ==
    IF S = {} THEN 0
    ELSE LET x == CHOOSE y \in S : TRUE IN f[x] + SumOver(f, S \ {x})

\* np.empty([side, side], dtype=int): storage is not initialised, every
\* element holds whatever value g was in memory.  Negative sides raise.
np_empty(side, g) ==
    [shape |-> <<side, side>>, data |-> [p \in Indices(<<side, side>>) |-> g]]

\* np.ones([side, side], dtype=int)
np_ones(side) ==
    [shape |-> <<side, side>>, data |-> [p \in Indices(<<side, side>>) |-> 1]]

\* Mutant of NegativeDimensions: a side of zero is rejected as well.
NonPositiveDimensions(side) == side <= 0

\* numpy raises ValueError("negative dimensions are not allowed")
NegativeDimensions(side) == side < 0

\* The nested loops of make_2d, from position (i, j) on.
RECURSIVE FillFrom(_, _, _)
FillFrom(image, i, j) ==
    IF i >= image.shape[1] THEN image
    ELSE IF j >= image.shape[2] THEN FillFrom(image, i + 1, 0)
    ELSE FillFrom([image EXCEPT !.data[<<i, j>>] = i + j], i, j + 1)

\* Mutant of make_2d: the outer loop starts at row 1.
make_2d_SkipFirstRow(side, g) == FillFrom(np_empty(side, g), 1, 0)

make_2d(side, g) == FillFrom(np_empty(side, g), 0, 0)

\* Python indexing of one axis of length n: negative indices count from the end.
NormIndex(i, n) == IF i < 0 THEN i + n ELSE i

InBounds(image, i, j) ==
    /\ NormIndex(i, image.shape[1]) \in 0 .. image.shape[1] - 1
    /\ NormIndex(j, image.shape[2]) \in 0 .. image.shape[2] - 1

GetItem(image, i, j) ==
    image.data[<<NormIndex(i, image.shape[1]), NormIndex(j, image.shape[2])>>]

\* Mutant of print_2d: the last element is read as image[0,-1].
print_2d_LastOfFirstRow(name, image) ==
    LET head == << name \o ":",
                   "  " \o ToString(image.shape[2]) \o " x " \o ToString(image.shape[1]) >>
        ok == InBounds(image, 0, 0) /\ InBounds(image, 0, 0 - 1)
    IN [lines |-> IF ok
                  THEN Append(head, "  [" \o ToString(GetItem(image, 0, 0))
                                    \o ", ... , "
                                    \o ToString(GetItem(image, 0, 0 - 1)) \o "]")
                  ELSE head,
        raised |-> ~ok,
        image |-> image]

\* print_2d(name, image): the lines printed, whether image[0,0] / image[-1,-1]
\* raised IndexError (after the first two lines were printed), and the array
\* as the call leaves it.
print_2d(name, image) ==
    LET head == << name \o ":",
                   "  " \o ToString(image.shape[2]) \o " x " \o ToString(image.shape[1]) >>
        ok == InBounds(image, 0, 0) /\ InBounds(image, 0 - 1, 0 - 1)
    IN [lines |-> IF ok
                  THEN Append(head, "  [" \o ToString(GetItem(image, 0, 0))
                                    \o ", ... , "
                                    \o ToString(GetItem(image, 0 - 1, 0 - 1)) \o "]")
                  ELSE head,
        raised |-> ~ok,
        image |-> image]

(* print(array) of the constant-fill script: numpy's text of a 2-D integer *)
(* array, one line per row, elements right-justified to a common width.    *)

RECURSIVE Digits(_)
Digits(v) == IF v < 10 THEN 1 ELSE 1 + Digits(v \div 10)

RECURSIVE Spaces(_)
Spaces(n) == IF n <= 0 THEN "" ELSE " " \o Spaces(n - 1)

MaxOf(S) == CHOOSE m \in S : \A x \in S : x <= m

RECURSIVE RowText(_, _, _, _)
RowText(image, r, c, width) ==
    IF c >= image.shape[2] THEN ""
    ELSE LET v == image.data[<<r, c>>]
         IN (IF c = 0 THEN "" ELSE " ")
            \o Spaces(width - Digits(v)) \o ToString(v)
            \o RowText(image, r, c + 1, width)

array_str(image) ==
    IF Size(image) = 0 THEN << "[]" >>
    ELSE LET width == MaxOf({Digits(image.data[p]) : p \in Indices(image.shape)})
             last == image.shape[1] - 1
         IN [r \in 1 .. image.shape[1] |->
                (IF r = 1 THEN "[[" ELSE " [")
                \o RowText(image, r - 1, 0, width)
                \o (IF r - 1 = last THEN "]]" ELSE "]")]

------------------------------------------------------------------------------
(* scipy.signal: finite-support ("valid") filtering.                        *)

\* _reverse_and_conj: the array reversed along every axis.
_reverse_and_conj(a) ==
    [shape |-> a.shape,
     data |-> [p \in Indices(a.shape) |->
                 a.data[<<a.shape[1] - 1 - p[1], a.shape[2] - 1 - p[2]>>]]]

\* Mutant of ValidShapesOk: only a first operand at least as large as the
\* second is accepted.
ValidShapesOk_FirstLargest(shape1, shape2) ==
    \A d \in 1 .. 2 : shape1[d] >= shape2[d]

\* 'valid' needs one operand at least as large as the other in every
\* dimension, else ValueError.
ValidShapesOk(shape1, shape2) ==
    \/ \A d \in 1 .. 2 : shape1[d] >= shape2[d]
    \/ \A d \in 1 .. 2 : shape2[d] >= shape1[d]

\* _inputs_swap_needed('valid', shape1, shape2): the operands are exchanged
\* when the first is not at least as large as the second in every dimension.
_inputs_swap_needed(shape1, shape2) ==
    ~(\A d \in 1 .. 2 : shape1[d] >= shape2[d])

\* Mutant of ConvolveValid: the output is one short in each dimension.
ConvolveValid_OneShort(volume, kernel) ==
    LET kh == kernel.shape[1]
        kw == kernel.shape[2]
        shape == <<volume.shape[1] - kh, volume.shape[2] - kw>>
    IN [shape |-> shape,
        data |-> [p \in Indices(shape) |->
                    SumOver([q \in Indices(kernel.shape) |->
                               volume.data[<<p[1] + kh - 1 - q[1], p[2] + kw - 1 - q[2]>>]
                               * kernel.data[q]],
                            Indices(kernel.shape))]]

\* The 'valid' part of the convolution of volume with a kernel no larger than it.
ConvolveValid(volume, kernel) ==
    LET kh == kernel.shape[1]
        kw == kernel.shape[2]
        shape == <<volume.shape[1] - kh + 1, volume.shape[2] - kw + 1>>
    IN [shape |-> shape,
        data |-> [p \in Indices(shape) |->
                    SumOver([q \in Indices(kernel.shape) |->
                               volume.data[<<p[1] + kh - 1 - q[1], p[2] + kw - 1 - q[2]>>]
                               * kernel.data[q]],
                            Indices(kernel.shape))]]

\* signal.convolve(in1, in2, mode="valid").  Choosing the method takes the
\* maximum of each integer operand, which raises ValueError on an empty one.
signal_convolve(in1, in2) ==
    IF Size(in1) = 0 \/ Size(in2) = 0 \/ ~ValidShapesOk(in1.shape, in2.shape)
    THEN [raised |-> "ValueError", value |-> in1]
    ELSE [raised |-> "",
          value |-> IF _inputs_swap_needed(in1.shape, in2.shape)
                    THEN ConvolveValid(in2, in1)
                    ELSE ConvolveValid(in1, in2)]

\* Mutant of signal_correlate: the second operand is not reversed.
signal_correlate_Unreversed(in1, in2) == signal_convolve(in1, in2)

\* signal.correlate(in1, in2, mode="valid"): the convolution with the
\* reversed second operand.
signal_correlate(in1, in2) == signal_convolve(in1, _reverse_and_conj(in2))

------------------------------------------------------------------------------
(* scipy.ndimage: filtering with the borders extended by a boundary mode.   *)

\* The input index an out-of-range index idx stands for on an axis of
\* length n >= 1; none (0 - 1) where mode "constant" supplies cval = 0.
ExtendIndex(mode, idx, n) ==
    CASE mode = "constant" -> IF idx \in 0 .. n - 1 THEN idx ELSE 0 - 1
      [] mode = "nearest"  -> IF idx < 0 THEN 0 ELSE IF idx > n - 1 THEN n - 1 ELSE idx
      [] mode = "wrap"     -> idx % n
      [] mode = "reflect"  -> LET m == idx % (2 * n)
                              IN IF m < n THEN m ELSE 2 * n - 1 - m
      [] mode = "mirror"   -> IF n = 1 THEN 0
                              ELSE LET m == idx % (2 * n - 2)
                                   IN IF m < n THEN m ELSE 2 * n - 2 - m

Extended(input, mode, i, j) ==
    LET ei == ExtendIndex(mode, i, input.shape[1])
        ej == ExtendIndex(mode, j, input.shape[2])
    IN IF ei < 0 \/ ej < 0 THEN 0 ELSE input.data[<<ei, ej>>]

\* Mutant of _correlate_or_convolve: only the positions where the weights
\* fit inside the input are produced, as in 'valid' filtering.
_correlate_or_convolve_Trimmed(input, weights, mode, convolution) ==
    IF mode \notin RecognisedModes \/ Size(weights) = 0
    THEN [raised |-> "RuntimeError", value |-> input]
    ELSE LET w == IF convolution THEN _reverse_and_conj(weights) ELSE weights
             origin == [d \in 1 .. 2 |->
                          IF convolution /\ w.shape[d] % 2 = 0 THEN 0 - 1 ELSE 0]
             off == [d \in 1 .. 2 |-> (w.shape[d] \div 2) + origin[d]]
             shape == <<input.shape[1] - w.shape[1] + 1,
                        input.shape[2] - w.shape[2] + 1>>
         IN [raised |-> "",
             value |-> [shape |-> shape,
                        data |-> [p \in Indices(shape) |->
                                    SumOver([q \in Indices(w.shape) |->
                                               Extended(input, mode,
                                                        p[1] + q[1] - off[1],
                                                        p[2] + q[2] - off[2])
                                               * w.data[q]],
                                            Indices(w.shape))]]]

\* Mutant of _correlate_or_convolve: an unrecognised mode falls back to
\* "reflect" instead of raising.
_correlate_or_convolve_DefaultMode(input, weights, mode, convolution) ==
    IF Size(weights) = 0
    THEN [raised |-> "RuntimeError", value |-> input]
    ELSE LET m == IF mode \in RecognisedModes THEN mode ELSE "reflect"
             w == IF convolution THEN _reverse_and_conj(weights) ELSE weights
             origin == [d \in 1 .. 2 |->
                          IF convolution /\ w.shape[d] % 2 = 0 THEN 0 - 1 ELSE 0]
             off == [d \in 1 .. 2 |-> (w.shape[d] \div 2) + origin[d]]
         IN [raised |-> "",
             value |-> [shape |-> input.shape,
                        data |-> [p \in Indices(input.shape) |->
                                    SumOver([q \in Indices(w.shape) |->
                                               Extended(input, m,
                                                        p[1] + q[1] - off[1],
                                                        p[2] + q[2] - off[2])
                                               * w.data[q]],
                                            Indices(w.shape))]]]

\* _correlate_or_convolve(input, weights, output=None, mode, cval=0.0,
\* origin=0, convolution): a convolution reverses the weights and moves the
\* origin of an even-sized filter by one.
_correlate_or_convolve(input, weights, mode, convolution) ==
    IF mode \notin RecognisedModes \/ Size(weights) = 0
    THEN [raised |-> "RuntimeError", value |-> input]
    ELSE LET w == IF convolution THEN _reverse_and_conj(weights) ELSE weights
             origin == [d \in 1 .. 2 |->
                          IF convolution /\ w.shape[d] % 2 = 0 THEN 0 - 1 ELSE 0]
             off == [d \in 1 .. 2 |-> (w.shape[d] \div 2) + origin[d]]
         IN [raised |-> "",
             value |-> [shape |-> input.shape,
                        data |-> [p \in Indices(input.shape) |->
                                    SumOver([q \in Indices(w.shape) |->
                                               Extended(input, mode,
                                                        p[1] + q[1] - off[1],
                                                        p[2] + q[2] - off[2])
                                               * w.data[q]],
                                            Indices(w.shape))]]]

ndimage_correlate(input, weights, mode) ==
    _correlate_or_convolve(input, weights, mode, FALSE)

ndimage_convolve(input, weights, mode) ==
    _correlate_or_convolve(input, weights, mode, TRUE)

\* time.perf_counter(): monotonic, so never below the previous reading.
perf_counter(previous) == previous .. MaxClock

------------------------------------------------------------------------------
(* The process: __main__ after parse_args(), one action per statement.      *)

\* Values np.empty may expose before make_2d overwrites them.
GarbageValues == {0 - 1, 0, 1}

Args == [image : Sizes, kernel : Sizes, extrapolation : Extrapolations]

Init ==
    /\ script \in Scripts
    /\ args \in Args
    /\ pc = "print_generating"
    /\ locals = << >>
    /\ stdout = << >>
    /\ trace = << >>
    /\ exitCode = {}
    /\ exception = ""
    /\ failedAt = ""

Goto(next) == pc' = next /\ UNCHANGED <<exitCode, exception, failedAt>>

\* An uncaught exception: traceback, exit status 1.
Raise(type) ==
    /\ pc' = "exited"
    /\ exitCode' = {1}
    /\ exception' = type
    /\ failedAt' = pc

\* Falling off the end of the script: exit status 0.
Finish ==
    /\ pc' = "exited"
    /\ exitCode' = {0}
    /\ UNCHANGED <<exception, failedAt>>

Bind(name, value) == locals' = (name :> value) @@ locals

WriteLines(lines) == stdout' = stdout \o lines

Emit(event) == trace' = Append(trace, event)

\* Mutant of MethodIsNone: the test is inverted.
MethodIsNotNone(method) == method # None

\* if method == None
MethodIsNone(method) == method = None

PrintGenerating ==
    /\ pc = "print_generating"
    /\ WriteLines(<< "Generating input and kernel..." >>)
    /\ Emit("print:Generating")
    /\ Goto("make_input")
    /\ UNCHANGED <<script, args, locals>>

\* input = make_2d(args.image)  |  np.ones([args.image, args.image], dtype=int)
\* kernel = make_2d(args.kernel) |  np.ones([args.kernel, args.kernel], dtype=int)
Generate(name, side, next) ==
    /\ UNCHANGED <<script, args, stdout>>
    /\ IF NegativeDimensions(side)
       THEN Raise("ValueError") /\ UNCHANGED <<locals, trace>>
       ELSE /\ \E g \in GarbageValues :
                 Bind(name, IF script = IndexSumScript
                            THEN make_2d(side, g)
                            ELSE np_ones(side))
            /\ Emit("generate:" \o name)
            /\ Goto(next)

\* print_2d(name, array)  |  print(array)
Describe(name, next) ==
    /\ UNCHANGED <<script, args>>
    /\ IF script = IndexSumScript
       THEN LET r == print_2d(name, locals[name])
            IN /\ WriteLines(r.lines)
               /\ locals' = [locals EXCEPT ![name] = r.image]
               /\ IF r.raised
                  THEN Raise("IndexError") /\ UNCHANGED trace
                  ELSE /\ Emit("describe:" \o name)
                       /\ IF next = "exited" THEN Finish ELSE Goto(next)
       ELSE /\ WriteLines(array_str(locals[name]))
            /\ Emit("describe:" \o name)
            /\ IF next = "exited" THEN Finish ELSE Goto(next)
            /\ UNCHANGED locals

MakeInput == pc = "make_input" /\ Generate("input", args.image, "print_input")

PrintInput == pc = "print_input" /\ Describe("input", "make_kernel")

MakeKernel == pc = "make_kernel" /\ Generate("kernel", args.kernel, "print_kernel")

PrintKernel == pc = "print_kernel" /\ Describe("kernel", "assign_method")

\* method = args.extrapolation
AssignMethod ==
    /\ pc = "assign_method"
    /\ Bind("method", args.extrapolation)
    /\ Goto("print_filtering")
    /\ UNCHANGED <<script, args, stdout, trace>>

PrintFiltering ==
    /\ pc = "print_filtering"
    /\ WriteLines(<< "Filtering..." >>)
    /\ Emit("print:Filtering")
    /\ Goto("if_method")
    /\ UNCHANGED <<script, args, locals>>

\* start = time.perf_counter()
Start(next) ==
    /\ \E t \in perf_counter(0) : Bind("start", t)
    /\ Emit("clock_start")
    /\ Goto(next)
    /\ UNCHANGED <<script, args, stdout>>

\* stop = time.perf_counter()
Stop ==
    /\ \E t \in perf_counter(locals.start) : Bind("stop", t)
    /\ Emit("clock_stop")
    /\ Goto("print_done")
    /\ UNCHANGED <<script, args, stdout>>

\* output = <filter call>: the call is made, and either raises or binds output.
Filter(kind, r, next) ==
    /\ Emit("filter:" \o kind)
    /\ IF r.raised # ""
       THEN Raise(r.raised) /\ UNCHANGED locals
       ELSE Bind("output", r.value) /\ Goto(next)
    /\ UNCHANGED <<script, args, stdout>>

StartValid ==
    /\ pc = "if_method"
    /\ MethodIsNone(locals.method)
    /\ Start("filter_valid")

\* signal.correlate(input, kernel, mode="valid") | signal.convolve(...)
FilterValid ==
    /\ pc = "filter_valid"
    /\ Filter("finite_support",
              IF script = IndexSumScript
              THEN signal_correlate(locals.input, locals.kernel)
              ELSE signal_convolve(locals.input, locals.kernel),
              "stop_valid")

StopValid == pc = "stop_valid" /\ Stop

StartExtrapolated ==
    /\ pc = "if_method"
    /\ ~MethodIsNone(locals.method)
    /\ Start("filter_extrapolated")

\* ndimage.correlate(input, kernel, mode=method) | ndimage.convolve(...)
FilterExtrapolated ==
    /\ pc = "filter_extrapolated"
    /\ Filter("extrapolated",
              IF script = IndexSumScript
              THEN ndimage_correlate(locals.input, locals.kernel, locals.method)
              ELSE ndimage_convolve(locals.input, locals.kernel, locals.method),
              "stop_extrapolated")

StopExtrapolated == pc = "stop_extrapolated" /\ Stop

\* print(f"  Done in {stop-start} s")
PrintDone ==
    /\ pc = "print_done"
    /\ WriteLines(<< "  Done in " \o ToString(locals.stop - locals.start) \o " s" >>)
    /\ Emit("print:Done")
    /\ Goto("print_output")
    /\ UNCHANGED <<script, args, locals>>

PrintOutput == pc = "print_output" /\ Describe("output", "exited")

Next ==
    \/ PrintGenerating
    \/ MakeInput
    \/ PrintInput
    \/ MakeKernel
    \/ PrintKernel
    \/ AssignMethod
    \/ PrintFiltering
    \/ StartValid
    \/ FilterValid
    \/ StopValid
    \/ StartExtrapolated
    \/ FilterExtrapolated
    \/ StopExtrapolated
    \/ PrintDone
    \/ PrintOutput

Spec == Init /\ [][Next]_vars

------------------------------------------------------------------------------
(* print_2d called twice in a row on one array, the arguments drawn from    *)
(* small non-empty (also non-square) arrays: args holds the arguments as    *)
(* passed, locals the parameters as the calls leave them.                   *)

\* Largest side of the arrays handed to print_2d on its own.
MaxDescribeSide == 2

DescribeElements == {0, 1}

DescribeArrays ==
    UNION { { [shape |-> <<h, w>>, data |-> d] :
                d \in [Indices(<<h, w>>) -> DescribeElements] } :
            <<h, w>> \in (1 .. MaxDescribeSide) \X (1 .. MaxDescribeSide) }

InitDescribe ==
    /\ script = IndexSumScript
    /\ args \in [name : {"input", "kernel", "output"}, image : DescribeArrays]
    /\ locals = args
    /\ pc = "describe_first"
    /\ stdout = << >>
    /\ trace = << >>
    /\ exitCode = {}
    /\ exception = ""
    /\ failedAt = ""

DescribeCall(next) ==
    LET r == print_2d(locals.name, locals.image)
    IN /\ WriteLines(r.lines)
       /\ locals' = [locals EXCEPT !.image = r.image]
       /\ IF r.raised
          THEN Raise("IndexError") /\ UNCHANGED trace
          ELSE Emit("describe:" \o locals.name) /\ Goto(next)
       /\ UNCHANGED <<script, args>>

DescribeFirst == pc = "describe_first" /\ DescribeCall("describe_second")

DescribeSecond == pc = "describe_second" /\ DescribeCall("described_twice")

NextDescribe == DescribeFirst \/ DescribeSecond

SpecDescribe == InitDescribe /\ [][NextDescribe]_vars

------------------------------------------------------------------------------
(* Vocabulary of the properties.                                            *)

Bound(name) == name \in DOMAIN locals

Exited == pc = "exited"

Happened(event) == \E i \in 1 .. Len(trace) : trace[i] = event

Printed(line) == \E i \in 1 .. Len(stdout) : stdout[i] = line

IsPrefix(s, t) == Len(s) <= Len(t) /\ \A i \in 1 .. Len(s) : s[i] = t[i]

NoMode == args.extrapolation = None

\* The four policies the specification requires at minimum.
SupportedModes == {"reflect", "constant", "nearest", "wrap"}

UnknownMode == args.extrapolation \notin RecognisedModes \cup {None}

FilterCalled == Happened("filter:finite_support") \/ Happened("filter:extrapolated")

Side(name) == IF name = "input" THEN args.image ELSE args.kernel

\* The statement that constructs the array has been executed.
Attempted(name) == Bound(name) \/ failedAt = "make_" \o name

\* The events of a complete run, in program order.
ExpectedTrace ==
    << "print:Generating", "generate:input", "describe:input",
       "generate:kernel", "describe:kernel", "print:Filtering",
       "clock_start",
       IF NoMode THEN "filter:finite_support" ELSE "filter:extrapolated",
       "clock_stop", "print:Done", "describe:output" >>

\* sum over 0 <= a, b < k of image[r+a, c+b] * kernel[a, b], with both
\* arrays filled by value(i, j) = i + j and the kernel not flipped.
CorrelationSum(r, c, k) ==
    SumOver([q \in (0 .. k - 1) \X (0 .. k - 1) |->
               ((r + q[1]) + (c + q[2])) * (q[1] + q[2])],
            (0 .. k - 1) \X (0 .. k - 1))

------------------------------------------------------------------------------
(* The claims.                                                              *)

\* C1: with no extrapolation mode and 1 <= kernel <= image, the finite-support
\* filter call returns an array of shape (n - k + 1, n - k + 1), which is
\* non-empty.
C1_ValidShape ==
    (NoMode /\ 1 <= args.kernel /\ args.kernel <= args.image
       /\ Happened("filter:finite_support"))
    => /\ Bound("output")
       /\ locals.output.shape =
            <<args.image - args.kernel + 1, args.image - args.kernel + 1>>
       /\ Size(locals.output) > 0
       /\ Indices(locals.output.shape) = DOMAIN locals.output.data

C1_Witness ==
    /\ NoMode /\ 1 < args.kernel /\ args.kernel < args.image
    /\ Bound("output")
    /\ locals.output.shape[1] = args.image - args.kernel + 1

\* C2: with a supported extrapolation mode (reflect, constant, nearest, wrap)
\* and image >= 1, kernel >= 1 (kernel > image included), the extrapolated
\* filter call returns an array of exactly the input's shape, (n, n).
C2_SameShape ==
    (args.extrapolation \in SupportedModes /\ args.image >= 1 /\ args.kernel >= 1
       /\ Happened("filter:extrapolated"))
    => /\ Bound("output")
       /\ locals.output.shape = locals.input.shape
       /\ locals.output.shape = <<args.image, args.image>>
       /\ Indices(locals.output.shape) = DOMAIN locals.output.data

C2_Witness ==
    /\ args.extrapolation \in SupportedModes
    /\ 1 <= args.image /\ args.image < args.kernel
    /\ Bound("output")
    /\ locals.output.shape = <<args.image, args.image>>

\* C3 as stated: with no extrapolation mode and kernel > image the run fails:
\* no output array, no 'Done in' line, no output description, and a
\* terminated run has failed.
C3_Original ==
    (NoMode /\ args.kernel > args.image)
    => /\ ~Bound("output")
       /\ ~Happened("print:Done")
       /\ ~Happened("describe:output")
       /\ (Exited => exitCode = {1})

\* C3 as amended: with no extrapolation mode and 1 <= image < kernel the
\* library exchanges the two operands, so nothing is raised: the filter call
\* returns an array of shape (k - n + 1, k - n + 1) and the run ends with the
\* 'Done in' line, the output description and exit code 0.
C3_SwappedOperands ==
    (NoMode /\ 1 <= args.image /\ args.image < args.kernel)
    => /\ exception = ""
       /\ (Happened("filter:finite_support")
             => /\ Bound("output")
                /\ locals.output.shape =
                     <<args.kernel - args.image + 1, args.kernel - args.image + 1>>)
       /\ (Exited => /\ exitCode = {0}
                     /\ Happened("print:Done")
                     /\ Happened("describe:output"))

C3_Witness ==
    /\ NoMode /\ 1 <= args.image /\ args.image < args.kernel
    /\ Exited /\ exitCode = {0}
    /\ Happened("filter:finite_support")

\* C4: for every side >= 1, make_2d(side) is a side x side array whose
\* element (i, j) is i + j whatever the storage held before; element (0, 0)
\* is 0 and element (side-1, side-1) is 2*(side-1).
C4_IndexSumFill ==
    \A name \in {"input", "kernel"} :
       (script = IndexSumScript /\ Bound(name) /\ Side(name) >= 1)
       => LET a == locals[name]
              side == Side(name)
          IN /\ a.shape = <<side, side>>
             /\ DOMAIN a.data = (0 .. side - 1) \X (0 .. side - 1)
             /\ \A i, j \in 0 .. side - 1 : a.data[<<i, j>>] = i + j
             /\ a.data[<<0, 0>>] = 0
             /\ a.data[<<side - 1, side - 1>>] = 2 * (side - 1)

C4_Witness ==
    /\ script = IndexSumScript
    /\ Bound("input") /\ Bound("kernel")
    /\ args.image >= 3 /\ args.kernel = 2
    /\ locals.input.data[<<2, 1>>] = 3

\* C5: in the index-sum script with no extrapolation mode and
\* 1 <= kernel <= image, output element (r, c) is the correlation sum over
\* 0 <= a, b < k of image[r+a, c+b] * kernel[a, b]; image=4, kernel=2 gives
\* output[0,0] = 6 and image=1, kernel=1 gives the single value 0.
C5_CorrelationValues ==
    (script = IndexSumScript /\ NoMode
       /\ 1 <= args.kernel /\ args.kernel <= args.image /\ Bound("output"))
    => /\ \A r, c \in 0 .. args.image - args.kernel :
             locals.output.data[<<r, c>>] = CorrelationSum(r, c, args.kernel)
       /\ (args.image = 4 /\ args.kernel = 2 => locals.output.data[<<0, 0>>] = 6)
       /\ (args.image = 1 /\ args.kernel = 1
             => locals.output.data = (<<0, 0>> :> 0))

C5_Witness ==
    /\ script = IndexSumScript /\ NoMode
    /\ args.image = 4 /\ args.kernel = 2
    /\ Bound("output")
    /\ locals.output.data[<<0, 0>>] = 6
    /\ locals.output.data[<<2, 2>>] = 22

\* C6 as stated: a non-positive image or kernel size makes the run fail at
\* the construction of that array, before any description of it is printed
\* and before any filter call.
C6_Original ==
    \A name \in {"input", "kernel"} :
       (Side(name) <= 0 /\ Attempted(name))
       => /\ failedAt = "make_" \o name
          /\ exitCode = {1}
          /\ ~Bound(name)
          /\ ~Happened("describe:" \o name)
          /\ ~Printed(name \o ":")
          /\ ~FilterCalled

\* C6 as amended: sizes are not validated.  A negative size makes the run
\* fail at the construction of that array, before any description of it is
\* printed and before any filter call.  A size of zero does not fail at
\* construction: an empty array is built, and in the index-sum script the
\* run then fails while that array is described (reading element [0,0]),
\* after its name and shape lines were printed and before any filter call.
C6_NonPositiveSizes ==
    \A name \in {"input", "kernel"} :
       /\ (Side(name) < 0 /\ Attempted(name))
          => /\ failedAt = "make_" \o name
             /\ exception = "ValueError"
             /\ exitCode = {1}
             /\ ~Bound(name)
             /\ ~Happened("describe:" \o name)
             /\ ~Printed(name \o ":")
             /\ ~FilterCalled
       /\ (Side(name) = 0 /\ Attempted(name))
          => /\ Bound(name)
             /\ Size(locals[name]) = 0
             /\ failedAt # "make_" \o name
       /\ (Side(name) = 0 /\ Attempted(name) /\ script = IndexSumScript)
          => /\ pc \in {"print_" \o name, "exited"}
             /\ ~FilterCalled
             /\ Exited => /\ failedAt = "print_" \o name
                          /\ exception = "IndexError"
                          /\ exitCode = {1}
                          /\ Printed(name \o ":")
                          /\ Printed("  0 x 0")
                          /\ ~Happened("describe:" \o name)

C6_Witness ==
    /\ script = IndexSumScript
    /\ args.kernel = 0
    /\ Exited /\ failedAt = "print_kernel"
    /\ stdout[Len(stdout)] = "  0 x 0"

C9_DescribeIdempotent ==
    LET a == args.image
        text == << args.name \o ":",
                   "  " \o ToString(a.shape[2]) \o " x " \o ToString(a.shape[1]),
                   "  [" \o ToString(a.data[<<0, 0>>]) \o ", ... , "
                         \o ToString(a.data[<<a.shape[1] - 1, a.shape[2] - 1>>])
                         \o "]" >>
    IN /\ locals.image = args.image
       /\ exception = ""
       /\ pc = "describe_first" => stdout = << >>
       /\ pc = "describe_second" => stdout = text
       /\ pc = "described_twice"
          => /\ stdout = text \o text
             /\ SubSeq(stdout, 1, 3) = SubSeq(stdout, 4, 6)

C9_Witness ==
    /\ pc = "described_twice"
    /\ Len(stdout) = 6
    /\ args.image.shape[1] # args.image.shape[2]
    /\ args.image.data[<<0, 0>>] # args.image.data[<<0, args.image.shape[2] - 1>>]

\* C10: a run is strictly linear: its events are always a prefix of
\* 'Generating...', generate and describe input, generate and describe
\* kernel, 'Filtering...', clock start, one filter call (finite-support when
\* the mode is absent, extrapolated otherwise), clock stop, 'Done in', output
\* description, and a successful run emits exactly that sequence; the clock
\* start, the filter call and the clock stop are adjacent, and the elapsed
\* time reported is stop - start >= 0.
C10_LinearRun ==
    /\ IsPrefix(trace, ExpectedTrace)
    /\ exitCode = {0}
       => /\ trace = ExpectedTrace
          /\ locals.stop - locals.start >= 0
          /\ Printed("  Done in " \o ToString(locals.stop - locals.start) \o " s")
    /\ \A i \in 1 .. Len(trace) :
          trace[i] = "clock_stop"
          => /\ i >= 3
             /\ trace[i - 2] = "clock_start"
             /\ trace[i - 1] \in {"filter:finite_support", "filter:extrapolated"}
    /\ ~(Happened("filter:finite_support") /\ Happened("filter:extrapolated"))
    /\ Happened("filter:finite_support") => NoMode
    /\ Happened("filter:extrapolated") => ~NoMode

C10_Witness ==
    /\ exitCode = {0}
    /\ ~NoMode
    /\ trace = ExpectedTrace
    /\ locals.stop > locals.start

====
